---- MODULE Spec2Model ----
(***************************************************************************)
(* Model of the Soroban contract PortfolioRebalancer                       *)
(* (contracts/src/lib.rs, portfolio.rs, reflector.rs, types.rs).           *)
(*                                                                         *)
(* Persisted state is the contract's instance and persistent storage, one  *)
(* variable per DataKey.  The ledger clock and the quotes the reflector    *)
(* contract returns are the environment.  Every contract function is one   *)
(* action; the writes of an action are the storage set() calls the code    *)
(* has executed when it returns or panics.                                 *)
(*                                                                         *)
(* Prices are held in units of 10^12, so the code's divisor 10^14 is       *)
(* PRICE_SCALE = 100 units: for a price that is a multiple of 10^12,       *)
(* (b * price) / 10^14 and (v * 10^14) / price are exactly                 *)
(* (b * p) / 100 and (v * 100) / p.                                        *)
(***************************************************************************)
EXTENDS Integers, Sequences, FiniteSets, TLC

VARIABLES
    Initialized,        \* DataKey::Initialized is present
    Admin,              \* DataKey::Admin            (Option<Address>)
    ReflectorAddress,   \* DataKey::ReflectorAddress (Option<Address>)
    EmergencyStop,      \* DataKey::EmergencyStop    (Option<bool>)
    NextPortfolioId,    \* DataKey::NextPortfolioId  (Option<u64>)
    portfolios,         \* DataKey::Portfolio(id) -> Portfolio
    now,                \* env.ledger().timestamp()
    oracle,             \* what ReflectorClient::lastprice returns per asset
    last,               \* the call made by the latest step and its outcome
    returned,           \* history: the ids create_portfolio has returned, in order
    history             \* history: what an observer of the calls has recorded

storage == <<Initialized, Admin, ReflectorAddress, EmergencyStop, NextPortfolioId, portfolios>>

env == <<now, oracle>>

vars == <<Initialized, Admin, ReflectorAddress, EmergencyStop, NextPortfolioId, portfolios, now, oracle, last, returned, history>>

----------------------------------------------------------------------------
(* Option<T> *)

None == << >>

Some(v) == <<v>>

IsSome(o) == o # None

Unwrap(o) == o[1]

UnwrapOr(o, d) == IF o = None THEN d ELSE o[1]

----------------------------------------------------------------------------
(* Program constants *)

COOLDOWN == 3600

MAX_PRICE_AGE == 3600

PRICE_SCALE == 100

BPS == 10000

----------------------------------------------------------------------------
(* Bounds of the exploration *)

MaxPortfolios == 1

MaxEpoch == 2

MaxBalance == 100

MaxCreated == 2

MaxCoarseEpoch == 1

MaxHolding == 200

----------------------------------------------------------------------------
(* Maps.  A soroban Map iterates in key order; AssetOrder is that order.   *)

AssetOrder == <<"a1", "a2", "a3">>

Assets == {AssetOrder[i] : i \in DOMAIN AssetOrder}

EmptyMap == << >>

Keys(m) == SelectSeq(AssetOrder, LAMBDA a : a \in DOMAIN m)

MapGet(m, k) == IF k \in DOMAIN m THEN Some(m[k]) ELSE None

MapSet(m, k, v) == [x \in DOMAIN m \cup {k} |-> IF x = k THEN v ELSE m[x]]

\* Rust's integer division truncates toward zero.
TruncDiv(a, b) ==
    IF (a >= 0) = (b > 0)
    THEN (IF a >= 0 THEN a ELSE -a) \div (IF b > 0 THEN b ELSE -b)
    ELSE -((IF a >= 0 THEN a ELSE -a) \div (IF b > 0 THEN b ELSE -b))

Abs(x) == IF x >= 0 THEN x ELSE -x

\* u64::saturating_sub
SaturatingSub(a, b) == IF a >= b THEN a - b ELSE 0

----------------------------------------------------------------------------
(* u32 arithmetic.  A u32 is held as two 16-bit halves so that the sum of  *)
(* percentages keeps its 32-bit width.                                     *)

HALF == 65536

ToU32(x) == [hi |-> x \div HALF, lo |-> x % HALF]

\* t + x on 32 bits, with the carry out of bit 31.
AddU32(t, x) ==
    LET lo == t.lo + x.lo
        hi == t.hi + x.hi + (lo \div HALF)
    IN  [val |-> [hi |-> hi % HALF, lo |-> lo % HALF], carry |-> hi >= HALF]

----------------------------------------------------------------------------
(* portfolio.rs *)

\* The loop `total += percentage` over the entries from position i on:
\* the accumulator after the loop and whether any addition overflowed.
RECURSIVE SumPercentages(_, _, _, _)
SumPercentages(allocations, ks, i, acc) ==
    IF i > Len(ks) THEN acc
    ELSE LET r == AddU32(acc.total, ToU32(allocations[ks[i]]))
         IN  SumPercentages(allocations, ks, i + 1,
                 [total |-> r.val, overflowed |-> acc.overflowed \/ r.carry])

\* validate_allocations: the set of outcomes the build can produce.  With
\* overflow checks an overflowing `total += percentage` panics, without
\* them it wraps; a sum that fits has the one outcome total == 100.
validate_allocations(allocations) ==
    LET s == SumPercentages(allocations, Keys(allocations), 1,
                 [total |-> ToU32(0), overflowed |-> FALSE])
        r == [panicked |-> FALSE, value |-> s.total = ToU32(100)]
    IN  IF s.overflowed
        THEN {[panicked |-> TRUE, value |-> FALSE], r}
        ELSE {r}

\* Mutant: each term is rounded down instead of toward zero.
RECURSIVE PortfolioValueFrom_Floor(_, _, _, _)
PortfolioValueFrom_Floor(balances, orc, ks, i) ==
    IF i > Len(ks) THEN 0
    ELSE LET q == orc[ks[i]]
             value == IF IsSome(q)
                      THEN (balances[ks[i]] * Unwrap(q).price) \div PRICE_SCALE
                      ELSE 0
         IN  value + PortfolioValueFrom_Floor(balances, orc, ks, i + 1)

\* calculate_portfolio_value: entries from position i on.
RECURSIVE PortfolioValueFrom(_, _, _, _)
PortfolioValueFrom(balances, orc, ks, i) ==
    IF i > Len(ks) THEN 0
    ELSE LET q == orc[ks[i]]
             value == IF IsSome(q)
                      THEN TruncDiv(balances[ks[i]] * Unwrap(q).price, PRICE_SCALE)
                      ELSE 0
         IN  value + PortfolioValueFrom(balances, orc, ks, i + 1)

calculate_portfolio_value(balances, orc) ==
    PortfolioValueFrom(balances, orc, Keys(balances), 1)

----------------------------------------------------------------------------
(* reflector.rs *)

\* Mutant: a quote whose age equals the maximum counts as stale.
is_stale_AtLimit(price_data, current_timestamp, max_age_seconds) ==
    SaturatingSub(current_timestamp, price_data.timestamp) >= max_age_seconds

is_stale(price_data, current_timestamp, max_age_seconds) ==
    SaturatingSub(current_timestamp, price_data.timestamp) > max_age_seconds

lastprice(orc, asset) == orc[asset]

----------------------------------------------------------------------------
(* lib.rs: the guards and computations of the contract functions *)

\* The persisted state as one record.
Snapshot ==
    [Initialized |-> Initialized, Admin |-> Admin, ReflectorAddress |-> ReflectorAddress,
     EmergencyStop |-> EmergencyStop, NextPortfolioId |-> NextPortfolioId,
     portfolios |-> portfolios]

\* A call and its outcome: the function, the address that authorised it,
\* its arguments, the result (for create_portfolio also the id returned,
\* 0 if none) and the persisted state the call started from.
NoCall == [op |-> "none", res |-> "none", caller |-> "none", args |-> << >>,
           id |-> 0, pre |-> << >>]

Call(op, res, caller, args) ==
    [op |-> op, res |-> res, caller |-> caller, args |-> args, id |-> 0,
     pre |-> Snapshot]

\* Calls are serialized: a step starts once the previous call has returned.
Idle == last.op = "none"

\* The record of an observer who is told the outcome of every call: whether
\* the emergency stop has ever been set, the portfolios on which an
\* execute_rebalance has been refused, and for each portfolio the time of
\* its creation followed by the times of its successful rebalances, and
\* for each portfolio and asset the amounts of the successful deposits.
NoHistory == [stopped |-> FALSE, refused |-> {}, times |-> << >>, deposits |-> << >>]

Observe(call, time) ==
    [stopped |-> \/ history.stopped
                 \/ (call.op = "set_emergency_stop" /\ call.res = "Ok" /\ call.args.stop),
     refused |-> IF /\ call.op = "execute_rebalance"
                    /\ call.res # "Ok"
                    /\ call.args.portfolio_id \in DOMAIN history.times
                 THEN history.refused \cup {call.args.portfolio_id}
                 ELSE history.refused,
     times   |-> IF call.op = "create_portfolio" /\ call.res = "Ok"
                 THEN [id \in DOMAIN history.times \cup {call.id} |->
                          IF id = call.id THEN <<time>> ELSE history.times[id]]
                 ELSE IF call.op = "execute_rebalance" /\ call.res = "Ok"
                 THEN [history.times EXCEPT ![call.args.portfolio_id] = Append(@, time)]
                 ELSE history.times,
     deposits |-> IF call.op = "create_portfolio" /\ call.res = "Ok"
                  THEN [id \in DOMAIN history.deposits \cup {call.id} |->
                           IF id = call.id THEN [a \in Assets |-> << >>]
                           ELSE history.deposits[id]]
                  ELSE IF call.op = "deposit" /\ call.res = "Ok"
                  THEN [history.deposits EXCEPT
                           ![call.args.portfolio_id][call.args.asset] =
                               Append(@, call.args.amount)]
                  ELSE history.deposits]

\* The observer records the call just made.
Observed == history' = Observe(last', now)

\* No observer is present.
Unobserved == UNCHANGED history

\* Mutant: the cooldown window is left out of the comparison.
CooldownActive_NoWindow(portfolio, current_time) ==
    current_time < portfolio.last_rebalance

\* lib.rs:186
CooldownActive(portfolio, current_time) ==
    current_time < portfolio.last_rebalance + COOLDOWN

\* Mutant: only the first target asset's quote is checked.
PriceGuardFrom_FirstOnly(orc, current_time, ks, i) ==
    IF i > Len(ks) \/ i > 1 THEN "Ok"
    ELSE LET q == lastprice(orc, ks[i])
         IN  IF IsSome(q)
             THEN IF is_stale(Unwrap(q), current_time, MAX_PRICE_AGE)
                  THEN "StalePriceData"
                  ELSE "Ok"
             ELSE "MissingPriceData"

\* Mutant: an asset without a quote is skipped, as check_rebalance_needed does.
RECURSIVE PriceGuardFrom_SkipMissing(_, _, _, _)
PriceGuardFrom_SkipMissing(orc, current_time, ks, i) ==
    IF i > Len(ks) THEN "Ok"
    ELSE LET q == lastprice(orc, ks[i])
         IN  IF IsSome(q) /\ is_stale(Unwrap(q), current_time, MAX_PRICE_AGE)
             THEN "StalePriceData"
             ELSE PriceGuardFrom_SkipMissing(orc, current_time, ks, i + 1)

\* lib.rs:197-207, target assets from position i on, in iteration order
RECURSIVE PriceGuardFrom(_, _, _, _)
PriceGuardFrom(orc, current_time, ks, i) ==
    IF i > Len(ks) THEN "Ok"
    ELSE LET q == lastprice(orc, ks[i])
         IN  IF IsSome(q)
             THEN IF is_stale(Unwrap(q), current_time, MAX_PRICE_AGE)
                  THEN "StalePriceData"
                  ELSE PriceGuardFrom(orc, current_time, ks, i + 1)
             ELSE "MissingPriceData"

\* Mutant: the conversion to a balance forgets the price scale.
ExpectedBalance_NoScale(total_value, target_pct, price) ==
    TruncDiv(TruncDiv(total_value * target_pct, 100), price)

\* lib.rs:226-227
ExpectedBalance(total_value, target_pct, price) ==
    TruncDiv(TruncDiv(total_value * target_pct, 100) * PRICE_SCALE, price)

\* lib.rs:235-237
SlippageBps(expected_balance, actual_balance) ==
    TruncDiv(Abs(expected_balance - actual_balance) * BPS, Abs(expected_balance))

\* lib.rs:221-242, target assets from position i on
RECURSIVE SlippageFrom(_, _, _, _, _, _)
SlippageFrom(portfolio, actual_balances, orc, total_value, ks, i) ==
    IF i > Len(ks) THEN "Ok"
    ELSE LET price == Unwrap(lastprice(orc, ks[i])).price
             expected_balance ==
                 ExpectedBalance(total_value, portfolio.target_allocations[ks[i]], price)
             actual_balance == UnwrapOr(MapGet(actual_balances, ks[i]), 0)
         IN  IF /\ Abs(expected_balance) > 0
                /\ SlippageBps(expected_balance, actual_balance)
                       > portfolio.slippage_tolerance
             THEN "SlippageExceeded"
             ELSE SlippageFrom(portfolio, actual_balances, orc, total_value, ks, i + 1)

\* lib.rs:209-213
has_actual_balances(actual_balances) == DOMAIN actual_balances # {}

\* Mutant: a total value of 0 does not skip the validation; an asset
\* proposed above an expected balance of 0 is refused.
SlippageCheck_ZeroChecked(portfolio, actual_balances, orc) ==
    IF has_actual_balances(actual_balances)
    THEN LET total_value == calculate_portfolio_value(portfolio.current_balances, orc)
         IN  IF total_value > 0
             THEN SlippageFrom(portfolio, actual_balances, orc, total_value,
                      Keys(portfolio.target_allocations), 1)
             ELSE IF \E a \in DOMAIN portfolio.target_allocations :
                         UnwrapOr(MapGet(actual_balances, a), 0) # 0
                  THEN "SlippageExceeded"
                  ELSE "Ok"
    ELSE "Ok"

\* lib.rs:209-244
SlippageCheck(portfolio, actual_balances, orc) ==
    IF has_actual_balances(actual_balances)
    THEN LET total_value == calculate_portfolio_value(portfolio.current_balances, orc)
         IN  IF total_value > 0
             THEN SlippageFrom(portfolio, actual_balances, orc, total_value,
                      Keys(portfolio.target_allocations), 1)
             ELSE "Ok"
    ELSE "Ok"

\* Mutant: the quotes are examined before the cooldown.
ExecuteAfterStop_PricesFirst(caller, portfolio_id, actual_balances) ==
    IF portfolio_id \notin DOMAIN portfolios THEN "PortfolioNotFound"
    ELSE LET portfolio == portfolios[portfolio_id]
         IN  IF caller # portfolio.user THEN "AuthFailed"
             ELSE IF ReflectorAddress = None THEN "NotInitialized"
             ELSE LET g == PriceGuardFrom(oracle, now,
                               Keys(portfolio.target_allocations), 1)
                  IN  IF g # "Ok" THEN g
                      ELSE IF CooldownActive(portfolio, now) THEN "CooldownActive"
                      ELSE SlippageCheck(portfolio, actual_balances, oracle)

\* execute_rebalance from the portfolio lookup to the slippage check
\* (lib.rs:177-244).
ExecuteAfterStop(caller, portfolio_id, actual_balances) ==
    IF portfolio_id \notin DOMAIN portfolios THEN "PortfolioNotFound"
    ELSE LET portfolio == portfolios[portfolio_id]
         IN  IF caller # portfolio.user THEN "AuthFailed"
             ELSE IF CooldownActive(portfolio, now) THEN "CooldownActive"
             ELSE IF ReflectorAddress = None THEN "NotInitialized"
             ELSE LET g == PriceGuardFrom(oracle, now,
                               Keys(portfolio.target_allocations), 1)
                  IN  IF g # "Ok" THEN g
                      ELSE SlippageCheck(portfolio, actual_balances, oracle)

\* Mutant: the portfolio is looked up before the emergency stop is read.
ExecuteOutcome_LookupFirst(caller, portfolio_id, actual_balances) ==
    IF portfolio_id \notin DOMAIN portfolios THEN "PortfolioNotFound"
    ELSE IF caller # portfolios[portfolio_id].user THEN "AuthFailed"
    ELSE IF EmergencyStop = Some(TRUE) THEN "EmergencyStopActive"
    ELSE ExecuteAfterStop(caller, portfolio_id, actual_balances)

\* execute_rebalance up to its first write: the panic or error it ends
\* with, or "Ok" when it goes on to store the portfolio.
ExecuteOutcome(caller, portfolio_id, actual_balances) ==
    IF EmergencyStop = Some(TRUE) THEN "EmergencyStopActive"
    ELSE ExecuteAfterStop(caller, portfolio_id, actual_balances)

\* create_portfolio up to its first write (lib.rs:37-49); valid is the
\* outcome of validate_allocations.
CreateOutcome(caller, user, valid, rebalance_threshold, slippage_tolerance) ==
    IF caller # user THEN "AuthFailed"
    ELSE IF valid.panicked THEN "ArithmeticOverflow"
    ELSE IF ~valid.value THEN "InvalidAllocation"
    ELSE IF ~(rebalance_threshold >= 1 /\ rebalance_threshold <= 50)
         THEN "InvalidThreshold"
    ELSE IF ~(slippage_tolerance >= 10 /\ slippage_tolerance <= 500)
         THEN "InvalidSlippageTolerance"
    ELSE "Ok"

\* Mutant: an amount of zero is let through.
DepositOutcome_NegativeOnly(caller, portfolio_id, amount) ==
    IF amount < 0 THEN "AmountMustBePositive"
    ELSE IF EmergencyStop = Some(TRUE) THEN "EmergencyStopActive"
    ELSE IF portfolio_id \notin DOMAIN portfolios THEN "PortfolioNotFound"
    ELSE IF caller # portfolios[portfolio_id].user THEN "AuthFailed"
    ELSE "Ok"

\* Mutant: the emergency stop is not consulted.
DepositOutcome_NoStop(caller, portfolio_id, amount) ==
    IF amount <= 0 THEN "AmountMustBePositive"
    ELSE IF portfolio_id \notin DOMAIN portfolios THEN "PortfolioNotFound"
    ELSE IF caller # portfolios[portfolio_id].user THEN "AuthFailed"
    ELSE "Ok"

\* deposit up to its first write (lib.rs:87-102)
DepositOutcome(caller, portfolio_id, amount) ==
    IF amount <= 0 THEN "AmountMustBePositive"
    ELSE IF EmergencyStop = Some(TRUE) THEN "EmergencyStopActive"
    ELSE IF portfolio_id \notin DOMAIN portfolios THEN "PortfolioNotFound"
    ELSE IF caller # portfolios[portfolio_id].user THEN "AuthFailed"
    ELSE "Ok"

\* Mutant: a drift equal to the threshold counts as exceeding it.
RECURSIVE DriftFrom_AtLeast(_, _, _, _, _)
DriftFrom_AtLeast(portfolio, orc, total_value, ks, i) ==
    IF i > Len(ks) THEN FALSE
    ELSE LET current_balance ==
                 UnwrapOr(MapGet(portfolio.current_balances, ks[i]), 0)
             q == lastprice(orc, ks[i])
         IN  IF IsSome(q)
             THEN LET current_asset_value ==
                          TruncDiv(current_balance * Unwrap(q).price, PRICE_SCALE)
                      current_percent ==
                          TruncDiv(current_asset_value * 100, total_value)
                      drift ==
                          Abs(current_percent - portfolio.target_allocations[ks[i]])
                  IN  IF drift >= portfolio.rebalance_threshold
                      THEN TRUE
                      ELSE DriftFrom_AtLeast(portfolio, orc, total_value, ks, i + 1)
             ELSE DriftFrom_AtLeast(portfolio, orc, total_value, ks, i + 1)

\* Mutant: only the first target asset is examined.
DriftFrom_FirstOnly(portfolio, orc, total_value, ks, i) ==
    IF i > Len(ks) THEN FALSE
    ELSE LET current_balance ==
                 UnwrapOr(MapGet(portfolio.current_balances, ks[i]), 0)
             q == lastprice(orc, ks[i])
         IN  IF IsSome(q)
             THEN LET current_asset_value ==
                          TruncDiv(current_balance * Unwrap(q).price, PRICE_SCALE)
                      current_percent ==
                          TruncDiv(current_asset_value * 100, total_value)
                      drift ==
                          Abs(current_percent - portfolio.target_allocations[ks[i]])
                  IN  drift > portfolio.rebalance_threshold
             ELSE FALSE

\* lib.rs:149-167, target assets from position i on
RECURSIVE DriftFrom(_, _, _, _, _)
DriftFrom(portfolio, orc, total_value, ks, i) ==
    IF i > Len(ks) THEN FALSE
    ELSE LET current_balance ==
                 UnwrapOr(MapGet(portfolio.current_balances, ks[i]), 0)
             q == lastprice(orc, ks[i])
         IN  IF IsSome(q)
             THEN LET current_asset_value ==
                          TruncDiv(current_balance * Unwrap(q).price, PRICE_SCALE)
                      current_percent ==
                          TruncDiv(current_asset_value * 100, total_value)
                      drift ==
                          Abs(current_percent - portfolio.target_allocations[ks[i]])
                  IN  IF drift > portfolio.rebalance_threshold
                      THEN TRUE
                      ELSE DriftFrom(portfolio, orc, total_value, ks, i + 1)
             ELSE DriftFrom(portfolio, orc, total_value, ks, i + 1)

\* check_rebalance_needed once the portfolio and the reflector are found
RebalanceNeeded(portfolio, orc) ==
    LET total_value == calculate_portfolio_value(portfolio.current_balances, orc)
    IN  IF total_value = 0 THEN FALSE
        ELSE DriftFrom(portfolio, orc, total_value,
                 Keys(portfolio.target_allocations), 1)

CheckOutcome(portfolio_id) ==
    IF portfolio_id \notin DOMAIN portfolios THEN "PortfolioNotFound"
    ELSE IF ReflectorAddress = None THEN "NotInitialized"
    ELSE IF RebalanceNeeded(portfolios[portfolio_id], oracle) THEN "true"
    ELSE "false"

----------------------------------------------------------------------------
(* lib.rs: the contract functions *)

\* Mutant: the Initialized key is not consulted.
initialize_NoGuard(admin, reflector_address) ==
    /\ Admin' = Some(admin)
    /\ ReflectorAddress' = Some(reflector_address)
    /\ Initialized' = TRUE
    /\ last' = Call("initialize", "Ok", "none",
                    [admin |-> admin, reflector_address |-> reflector_address])
    /\ UNCHANGED <<EmergencyStop, NextPortfolioId, portfolios, env, returned>>

initialize(admin, reflector_address) ==
    IF Initialized
    THEN /\ last' = Call("initialize", "AlreadyInitialized", "none",
                            [admin |-> admin, reflector_address |-> reflector_address])
         /\ UNCHANGED <<storage, env, returned>>
    ELSE /\ Admin' = Some(admin)
         /\ ReflectorAddress' = Some(reflector_address)
         /\ Initialized' = TRUE
         /\ last' = Call("initialize", "Ok", "none",
                            [admin |-> admin, reflector_address |-> reflector_address])
         /\ UNCHANGED <<EmergencyStop, NextPortfolioId, portfolios, env, returned>>

\* lib.rs:60-69
NewPortfolio(user, target_allocations, rebalance_threshold, slippage_tolerance) ==
    [user |-> user,
     target_allocations |-> target_allocations,
     current_balances |-> EmptyMap,
     rebalance_threshold |-> rebalance_threshold,
     slippage_tolerance |-> slippage_tolerance,
     last_rebalance |-> now,
     total_value |-> 0,
     is_active |-> TRUE]

\* storage().persistent().set(&DataKey::Portfolio(id), &portfolio)
StorePortfolio(portfolio_id, portfolio) ==
    [id \in DOMAIN portfolios \cup {portfolio_id} |->
        IF id = portfolio_id THEN portfolio ELSE portfolios[id]]

CreateArgs(user, target_allocations, rebalance_threshold, slippage_tolerance) ==
    [user |-> user, target_allocations |-> target_allocations,
     rebalance_threshold |-> rebalance_threshold,
     slippage_tolerance |-> slippage_tolerance]

\* Mutant: the next-id counter is advanced before the threshold and the
\* tolerance are validated.
create_portfolio_CounterFirst(caller, user, target_allocations, rebalance_threshold, slippage_tolerance) ==
    \E valid \in validate_allocations(target_allocations) :
        LET res == CreateOutcome(caller, user, valid, rebalance_threshold,
                       slippage_tolerance)
            portfolio_id == UnwrapOr(NextPortfolioId, 1)
            args == CreateArgs(user, target_allocations, rebalance_threshold,
                        slippage_tolerance)
        IN  /\ last' = [Call("create_portfolio", res, caller, args)
                           EXCEPT !.id = IF res = "Ok" THEN portfolio_id ELSE 0]
            /\ NextPortfolioId' =
                   IF res \in {"Ok", "InvalidThreshold", "InvalidSlippageTolerance"}
                   THEN Some(portfolio_id + 1)
                   ELSE NextPortfolioId
            /\ portfolios' =
                   IF res = "Ok"
                   THEN StorePortfolio(portfolio_id,
                            NewPortfolio(user, target_allocations, rebalance_threshold,
                                slippage_tolerance))
                   ELSE portfolios
            /\ returned' = IF res = "Ok" THEN Append(returned, portfolio_id) ELSE returned
            /\ UNCHANGED <<Initialized, Admin, ReflectorAddress, EmergencyStop, env>>

\* Mutant: the next-id counter is stored without the increment.
create_portfolio_NoIncrement(caller, user, target_allocations, rebalance_threshold, slippage_tolerance) ==
    \E valid \in validate_allocations(target_allocations) :
        LET res == CreateOutcome(caller, user, valid, rebalance_threshold,
                       slippage_tolerance)
            portfolio_id == UnwrapOr(NextPortfolioId, 1)
            args == CreateArgs(user, target_allocations, rebalance_threshold,
                        slippage_tolerance)
        IN  /\ last' = [Call("create_portfolio", res, caller, args)
                           EXCEPT !.id = IF res = "Ok" THEN portfolio_id ELSE 0]
            /\ NextPortfolioId' = IF res = "Ok" THEN Some(portfolio_id) ELSE NextPortfolioId
            /\ portfolios' =
                   IF res = "Ok"
                   THEN StorePortfolio(portfolio_id,
                            NewPortfolio(user, target_allocations, rebalance_threshold,
                                slippage_tolerance))
                   ELSE portfolios
            /\ returned' = IF res = "Ok" THEN Append(returned, portfolio_id) ELSE returned
            /\ UNCHANGED <<Initialized, Admin, ReflectorAddress, EmergencyStop, env>>

create_portfolio(caller, user, target_allocations, rebalance_threshold, slippage_tolerance) ==
    \E valid \in validate_allocations(target_allocations) :
        LET res == CreateOutcome(caller, user, valid, rebalance_threshold,
                       slippage_tolerance)
            portfolio_id == UnwrapOr(NextPortfolioId, 1)
            args == CreateArgs(user, target_allocations, rebalance_threshold,
                        slippage_tolerance)
        IN  IF res = "Ok"
            THEN /\ NextPortfolioId' = Some(portfolio_id + 1)
                 /\ portfolios' =
                        StorePortfolio(portfolio_id,
                            NewPortfolio(user, target_allocations, rebalance_threshold,
                                slippage_tolerance))
                 /\ last' = [Call("create_portfolio", "Ok", caller, args)
                                EXCEPT !.id = portfolio_id]
                 /\ returned' = Append(returned, portfolio_id)
                 /\ UNCHANGED <<Initialized, Admin, ReflectorAddress, EmergencyStop, env>>
            ELSE /\ last' = Call("create_portfolio", res, caller, args)
                 /\ UNCHANGED <<storage, env, returned>>

\* Mutant: the amount replaces the balance instead of being added to it.
deposit_Overwrite(caller, portfolio_id, asset, amount) ==
    LET res == DepositOutcome(caller, portfolio_id, amount)
    IN  /\ last' = Call("deposit", res, caller,
                        [portfolio_id |-> portfolio_id, asset |-> asset,
                         amount |-> amount])
        /\ IF res = "Ok"
           THEN portfolios' =
                    [portfolios EXCEPT ![portfolio_id].current_balances =
                        MapSet(@, asset, amount)]
           ELSE UNCHANGED portfolios
        /\ UNCHANGED <<Initialized, Admin, ReflectorAddress, EmergencyStop,
                       NextPortfolioId, env, returned>>

deposit(caller, portfolio_id, asset, amount) ==
    LET res == DepositOutcome(caller, portfolio_id, amount)
    IN  /\ last' = Call("deposit", res, caller,
                        [portfolio_id |-> portfolio_id, asset |-> asset,
                         amount |-> amount])
        /\ IF res = "Ok"
           THEN LET portfolio == portfolios[portfolio_id]
                    current_balance ==
                        UnwrapOr(MapGet(portfolio.current_balances, asset), 0)
                IN  portfolios' =
                        [portfolios EXCEPT ![portfolio_id].current_balances =
                            MapSet(@, asset, current_balance + amount)]
           ELSE UNCHANGED portfolios
        /\ UNCHANGED <<Initialized, Admin, ReflectorAddress, EmergencyStop,
                       NextPortfolioId, env, returned>>

check_rebalance_needed(portfolio_id) ==
    /\ last' = Call("check_rebalance_needed", CheckOutcome(portfolio_id), "none",
                   [portfolio_id |-> portfolio_id])
    /\ UNCHANGED <<storage, env, returned>>

\* Mutant: the proposed balances replace the portfolio's balances.
execute_rebalance_AdoptsProposed(caller, portfolio_id, actual_balances) ==
    LET res == ExecuteOutcome(caller, portfolio_id, actual_balances)
    IN  /\ last' = Call("execute_rebalance", res, caller,
                        [portfolio_id |-> portfolio_id,
                         actual_balances |-> actual_balances])
        /\ IF res = "Ok"
           THEN portfolios' = [portfolios EXCEPT
                                  ![portfolio_id].last_rebalance = now,
                                  ![portfolio_id].current_balances =
                                      IF has_actual_balances(actual_balances)
                                      THEN actual_balances ELSE @]
           ELSE UNCHANGED portfolios
        /\ UNCHANGED <<Initialized, Admin, ReflectorAddress, EmergencyStop,
                       NextPortfolioId, env, returned>>

\* Mutant: the computed total value is cached in the portfolio record.
execute_rebalance_StoresValue(caller, portfolio_id, actual_balances) ==
    LET res == ExecuteOutcome(caller, portfolio_id, actual_balances)
    IN  /\ last' = Call("execute_rebalance", res, caller,
                        [portfolio_id |-> portfolio_id,
                         actual_balances |-> actual_balances])
        /\ IF res = "Ok"
           THEN portfolios' = [portfolios EXCEPT
                                  ![portfolio_id].last_rebalance = now,
                                  ![portfolio_id].total_value =
                                      calculate_portfolio_value(
                                          portfolios[portfolio_id].current_balances, oracle)]
           ELSE UNCHANGED portfolios
        /\ UNCHANGED <<Initialized, Admin, ReflectorAddress, EmergencyStop,
                       NextPortfolioId, env, returned>>

\* Mutant: last_rebalance is not written.
execute_rebalance_NoStamp(caller, portfolio_id, actual_balances) ==
    LET res == ExecuteOutcome(caller, portfolio_id, actual_balances)
    IN  /\ last' = Call("execute_rebalance", res, caller,
                        [portfolio_id |-> portfolio_id,
                         actual_balances |-> actual_balances])
        /\ UNCHANGED <<storage, env, returned>>

execute_rebalance(caller, portfolio_id, actual_balances) ==
    LET res == ExecuteOutcome(caller, portfolio_id, actual_balances)
    IN  /\ last' = Call("execute_rebalance", res, caller,
                        [portfolio_id |-> portfolio_id,
                         actual_balances |-> actual_balances])
        /\ IF res = "Ok"
           THEN portfolios' = [portfolios EXCEPT ![portfolio_id].last_rebalance = now]
           ELSE UNCHANGED portfolios
        /\ UNCHANGED <<Initialized, Admin, ReflectorAddress, EmergencyStop,
                       NextPortfolioId, env, returned>>

set_emergency_stop(caller, stop) ==
    IF Admin = None
    THEN /\ last' = Call("set_emergency_stop", "NotInitialized", caller, [stop |-> stop])
         /\ UNCHANGED <<storage, env, returned>>
    ELSE IF caller # Unwrap(Admin)
    THEN /\ last' = Call("set_emergency_stop", "AuthFailed", caller, [stop |-> stop])
         /\ UNCHANGED <<storage, env, returned>>
    ELSE /\ EmergencyStop' = Some(stop)
         /\ last' = Call("set_emergency_stop", "Ok", caller, [stop |-> stop])
         /\ UNCHANGED <<Initialized, Admin, ReflectorAddress, NextPortfolioId,
                        portfolios, env, returned>>

\* portfolio::validate_allocations called on its own, as test.rs:367-382
\* does: the outcome is "true", "false" or "panic".
call_validate_allocations(allocations) ==
    \E valid \in validate_allocations(allocations) :
        /\ last' = Call("validate_allocations",
                        IF valid.panicked THEN "panic"
                        ELSE IF valid.value THEN "true" ELSE "false",
                        "none", [allocations |-> allocations])
        /\ UNCHANGED <<storage, env, returned>>

\* portfolio::calculate_portfolio_value called on its own with the quotes
\* the reflector returns: the outcome is the value computed.
call_calculate_portfolio_value(balances) ==
    /\ last' = Call("calculate_portfolio_value",
                    calculate_portfolio_value(balances, oracle),
                    "none", [balances |-> balances])
    /\ UNCHANGED <<storage, env, returned>>

----------------------------------------------------------------------------
(* The environment: the ledger clock, the reflector's quotes, and the      *)
(* caller, who takes the outcome of a call before the next step.           *)

\* The ledger closes a later block.
Tick(t) ==
    /\ t > now
    /\ now' = t
    /\ UNCHANGED <<storage, oracle, last, returned, history>>

\* The reflector publishes a quote for an asset.
OracleUpdate(asset, price, timestamp) ==
    /\ timestamp <= now
    /\ oracle' = [oracle EXCEPT ![asset] = Some([price |-> price, timestamp |-> timestamp])]
    /\ oracle' # oracle
    /\ UNCHANGED <<storage, now, last, returned, history>>

\* The reflector drops an asset.
OracleRemove(asset) ==
    /\ oracle[asset] # None
    /\ oracle' = [oracle EXCEPT ![asset] = None]
    /\ UNCHANGED <<storage, now, last, returned, history>>

\* The outcome of the latest call is delivered.
Return ==
    /\ last # NoCall
    /\ last' = NoCall
    /\ UNCHANGED <<storage, env, returned, history>>

----------------------------------------------------------------------------
(* Inputs of the exploration *)

Addresses == {"u1", "u2"}

InitInputs == {<<"u1", "r1">>}

TradedAssets == {"a1", "a2"}

T_50_50 == [a \in {"a1", "a2"} |-> 50]

T_100 == [a \in {"a1"} |-> 100]

T_110 == [a \in {"a1", "a2"} |-> IF a = "a1" THEN 60 ELSE 50]

CreateIn(ta, thr, tol) == [ta |-> ta, thr |-> thr, tol |-> tol]

\* Three accepted configurations, one rejected for each cause, and two
\* with several causes at once.
CreateInputs ==
    {CreateIn(T_50_50, 5, 100), CreateIn(T_100, 1, 10), CreateIn(T_100, 50, 500),
     CreateIn(T_110, 5, 100), CreateIn(EmptyMap, 5, 100),
     CreateIn(T_50_50, 0, 100), CreateIn(T_50_50, 51, 100),
     CreateIn(T_50_50, 5, 9), CreateIn(T_50_50, 5, 501),
     CreateIn(T_110, 0, 9), CreateIn(T_100, 51, 501)}

AmountInputs == {-100, 0, 100}

\* Quotes in units of 10^12: a1 at 1.0 * 10^14, a2 at 1.5 * 10^14.
PriceInputs(asset) == IF asset = "a1" THEN {100} ELSE {150}

TimePoints ==
    {k * COOLDOWN : k \in 0..MaxEpoch} \cup {k * COOLDOWN + 1 : k \in 1..(MaxEpoch - 1)}

\* The balances execute_rebalance expects of a portfolio whose target
\* assets are all quoted.
ExpectedMap(portfolio, orc) ==
    [a \in DOMAIN portfolio.target_allocations |->
        ExpectedBalance(calculate_portfolio_value(portfolio.current_balances, orc),
                        portfolio.target_allocations[a], Unwrap(orc[a]).price)]

Shortfalls == {0, 1, 2, 5, 6}

\* Proposed balances: none, a fixed map, and for a portfolio with quotes
\* the expected balances, exact, short on a1 and without a2.
ActualInputs(portfolio_id) ==
    {EmptyMap, [a \in {"a1", "a2"} |-> 100]} \cup
    (IF /\ portfolio_id \in DOMAIN portfolios
        /\ \A a \in DOMAIN portfolios[portfolio_id].target_allocations : IsSome(oracle[a])
     THEN LET e == ExpectedMap(portfolios[portfolio_id], oracle)
          IN  {[a \in DOMAIN e |-> IF a = "a1" THEN e[a] - d ELSE e[a]] : d \in Shortfalls}
              \cup {[a \in DOMAIN e \ {"a2"} |-> e[a]]}
     ELSE {})

----------------------------------------------------------------------------
(* The contract and its environment *)

Init ==
    /\ Initialized = FALSE
    /\ Admin = None
    /\ ReflectorAddress = None
    /\ EmergencyStop = None
    /\ NextPortfolioId = None
    /\ portfolios = << >>
    /\ now = 0
    /\ oracle = [a \in Assets |-> None]
    /\ last = NoCall
    /\ returned = << >>
    /\ history = NoHistory

\* Deposits stay within MaxBalance per asset.
WithinBalance(portfolio_id, asset, amount) ==
    portfolio_id \in DOMAIN portfolios =>
        UnwrapOr(MapGet(portfolios[portfolio_id].current_balances, asset), 0) + amount
            <= MaxBalance

\* One portfolio, the clock over MaxEpoch cooldown periods.
Next ==
    \/ Idle /\ Unobserved /\ \E i \in InitInputs : initialize(i[1], i[2])
    \/ Idle /\ Unobserved /\ \E caller \in Addresses, user \in Addresses, c \in CreateInputs :
           /\ UnwrapOr(NextPortfolioId, 1) <= MaxPortfolios
           /\ create_portfolio(caller, user, c.ta, c.thr, c.tol)
    \/ Idle /\ Unobserved /\ \E caller \in Addresses, pid \in 1..(MaxPortfolios + 1),
                  asset \in TradedAssets, amount \in AmountInputs :
           /\ WithinBalance(pid, asset, amount)
           /\ deposit(caller, pid, asset, amount)
    \/ Idle /\ Unobserved /\ \E pid \in 1..(MaxPortfolios + 1) : check_rebalance_needed(pid)
    \/ Idle /\ Unobserved /\ \E caller \in Addresses, pid \in 1..(MaxPortfolios + 1) :
           \E actual \in ActualInputs(pid) : execute_rebalance(caller, pid, actual)
    \/ Idle /\ Unobserved /\ \E caller \in Addresses, stop \in BOOLEAN : set_emergency_stop(caller, stop)
    \/ Idle /\ \E t \in TimePoints : Tick(t)
    \/ Idle /\ \E asset \in TradedAssets, t \in TimePoints :
           \E price \in PriceInputs(asset) : OracleUpdate(asset, price, t)
    \/ Idle /\ \E asset \in TradedAssets : OracleRemove(asset)
    \/ Return

Spec == Init /\ [][Next]_vars

----------------------------------------------------------------------------
(* Several portfolios under a coarse clock: up to MaxCreated portfolios,   *)
(* deposits of one asset up to MaxHolding, the clock on whole cooldown     *)
(* periods, quotes stamped with the current time.                          *)

InitInputsWide == {<<"u1", "r1">>, <<"u2", "r2">>}

CoarseTimes == {k * COOLDOWN : k \in 0..MaxCoarseEpoch}

DepositAssets == {"a2"}

WithinHolding(portfolio_id, asset, amount) ==
    portfolio_id \in DOMAIN portfolios =>
        UnwrapOr(MapGet(portfolios[portfolio_id].current_balances, asset), 0) + amount
            <= MaxHolding

CoarseActualInputs == {EmptyMap, [a \in {"a1", "a2"} |-> 100]}

NextPortfolios ==
    \/ Idle /\ Unobserved /\ \E i \in InitInputsWide : initialize(i[1], i[2])
    \/ Idle /\ Unobserved /\ \E caller \in Addresses, user \in Addresses, c \in CreateInputs :
           /\ UnwrapOr(NextPortfolioId, 1) <= MaxCreated
           /\ create_portfolio(caller, user, c.ta, c.thr, c.tol)
    \/ Idle /\ Unobserved /\ \E caller \in Addresses, pid \in 1..(MaxCreated + 1),
                  asset \in DepositAssets, amount \in AmountInputs :
           /\ WithinHolding(pid, asset, amount)
           /\ deposit(caller, pid, asset, amount)
    \/ Idle /\ Unobserved /\ \E pid \in 1..(MaxCreated + 1) : check_rebalance_needed(pid)
    \/ Idle /\ Unobserved /\ \E caller \in Addresses, pid \in 1..(MaxCreated + 1),
                  actual \in CoarseActualInputs : execute_rebalance(caller, pid, actual)
    \/ Idle /\ Unobserved /\ \E caller \in Addresses, stop \in BOOLEAN : set_emergency_stop(caller, stop)
    \/ Idle /\ \E t \in CoarseTimes : Tick(t)
    \/ Idle /\ \E asset \in TradedAssets :
           \E price \in PriceInputs(asset) : OracleUpdate(asset, price, now)
    \/ Idle /\ \E asset \in TradedAssets : OracleRemove(asset)
    \/ Return

SpecPortfolios == Init /\ [][NextPortfolios]_vars

----------------------------------------------------------------------------
(* Validation over the whole u32 range: validate_allocations on maps of up *)
(* to three entries whose percentages reach 2^31 - 1, so that a sum can    *)
(* pass 2^32, and create_portfolio with such maps and with thresholds and  *)
(* tolerances on both sides of each limit.                                 *)

LargePercentage == 2147483647

PercentageInputs == {0, 40, 50, 60, 100, 102, LargePercentage}

\* Every map from a subset of the assets to PercentageInputs.
AllocationInputs ==
    UNION {[D -> PercentageInputs] : D \in SUBSET Assets}

\* 2^31 - 1 + 2^31 - 1 + 102 = 2^32 + 100
T_Wrap100 ==
    [a \in Assets |-> IF a = "a3" THEN 102 ELSE LargePercentage]

TargetInputs == {T_50_50, T_100, T_110, EmptyMap, T_Wrap100}

ThresholdInputs == {0, 1, 50, 51}

ToleranceInputs == {9, 10, 500, 501}

NextValidate ==
    \/ Idle /\ Unobserved /\ \E allocations \in AllocationInputs :
           call_validate_allocations(allocations)
    \/ Idle /\ Unobserved /\ \E caller \in Addresses, user \in Addresses, ta \in TargetInputs,
                  thr \in ThresholdInputs, tol \in ToleranceInputs :
           /\ UnwrapOr(NextPortfolioId, 1) <= MaxCreated
           /\ create_portfolio(caller, user, ta, thr, tol)
    \/ Return

SpecValidate == Init /\ [][NextValidate]_vars

----------------------------------------------------------------------------
(* One portfolio followed through time by the observer: the clock over     *)
(* MaxEpoch cooldown periods, the emergency stop set and cleared,          *)
(* rebalances refused and retried.                                         *)

ObservedCreateInputs ==
    {CreateIn(T_50_50, 5, 100), CreateIn(T_100, 1, 10), CreateIn(T_110, 5, 100)}

\* Two deposits of 50 fill an asset's MaxBalance.
ObservedAmounts == {0, 50}

NextObserved ==
    \/ Idle /\ (\E i \in InitInputs : initialize(i[1], i[2])) /\ Observed
    \/ Idle /\ (\E caller \in Addresses, user \in Addresses, c \in ObservedCreateInputs :
                   /\ UnwrapOr(NextPortfolioId, 1) <= MaxPortfolios
                   /\ create_portfolio(caller, user, c.ta, c.thr, c.tol)) /\ Observed
    \/ Idle /\ (\E caller \in Addresses, pid \in 1..MaxPortfolios,
                   asset \in TradedAssets, amount \in ObservedAmounts :
                   /\ WithinBalance(pid, asset, amount)
                   /\ deposit(caller, pid, asset, amount)) /\ Observed
    \/ Idle /\ (\E pid \in 1..(MaxPortfolios + 1) : check_rebalance_needed(pid)) /\ Observed
    \/ Idle /\ (\E caller \in Addresses, pid \in 1..(MaxPortfolios + 1) :
                   \E actual \in ActualInputs(pid) :
                       execute_rebalance(caller, pid, actual)) /\ Observed
    \/ Idle /\ (\E caller \in Addresses, stop \in BOOLEAN :
                   set_emergency_stop(caller, stop)) /\ Observed
    \/ Idle /\ \E t \in TimePoints : Tick(t)
    \/ Idle /\ \E asset \in TradedAssets, t \in TimePoints :
           \E price \in PriceInputs(asset) : OracleUpdate(asset, price, t)
    \/ Idle /\ \E asset \in TradedAssets : OracleRemove(asset)
    \/ Return

SpecObserved == Init /\ [][NextObserved]_vars

----------------------------------------------------------------------------
(* Holdings and drift: up to MaxCreated portfolios of one user, deposits   *)
(* of target and non-target assets up to MaxHolding, quotes at equal and   *)
(* at different prices, no passage of time.                                *)

\* Thresholds 5 and 3: a drift of 3 is reached exactly.
HoldingCreateInputs == {CreateIn(T_50_50, 5, 100), CreateIn(T_50_50, 3, 100)}

HoldingAmounts == {100}

\* Quotes of 1.0 * 10^14 and 1.1 * 10^14; a3 is in no target allocation.
HoldingPrices(asset) == IF asset = "a3" THEN {100} ELSE {100, 110}

NextHoldings ==
    \/ Idle /\ Unobserved /\ \E i \in InitInputs : initialize(i[1], i[2])
    \/ Idle /\ Unobserved /\ \E c \in HoldingCreateInputs :
           /\ UnwrapOr(NextPortfolioId, 1) <= MaxCreated
           /\ create_portfolio("u1", "u1", c.ta, c.thr, c.tol)
    \/ Idle /\ Unobserved /\ \E caller \in Addresses, pid \in 1..MaxCreated,
                  asset \in Assets, amount \in HoldingAmounts :
           /\ WithinHolding(pid, asset, amount)
           /\ deposit(caller, pid, asset, amount)
    \/ Idle /\ Unobserved /\ \E pid \in 1..MaxCreated : check_rebalance_needed(pid)
    \/ Idle /\ \E asset \in Assets :
           \E price \in HoldingPrices(asset) : OracleUpdate(asset, price, now)
    \/ Idle /\ \E asset \in Assets : OracleRemove(asset)
    \/ Return

SpecHoldings == Init /\ [][NextHoldings]_vars

----------------------------------------------------------------------------
(* Valuation: calculate_portfolio_value on balance maps of up to three     *)
(* entries, negative, zero and positive, under quotes of either sign whose *)
(* products are not multiples of 10^14.                                    *)

ValueBalances == {-50, 0, 50, 199}

\* Every map from a subset of the assets to ValueBalances.
BalanceInputs ==
    UNION {[D -> ValueBalances] : D \in SUBSET Assets}

\* Quotes of -0.33, 0.33 and 1.0 * 10^14.
ValuePrices == {-33, 33, 100}

NextValue ==
    \/ Idle /\ Unobserved /\ \E balances \in BalanceInputs :
           call_calculate_portfolio_value(balances)
    \/ Idle /\ \E asset \in Assets, price \in ValuePrices :
           OracleUpdate(asset, price, now)
    \/ Idle /\ \E asset \in Assets : OracleRemove(asset)
    \/ Return

SpecValue == Init /\ [][NextValue]_vars

----------------------------------------------------------------------------
(* Vocabulary of the properties.  A property speaks of the latest call:    *)
(* its arguments and result, the persisted state it started from           *)
(* (last.pre) and the state it left.  The clock and the quotes do not      *)
(* change between a call and its return.  The conditions are restated      *)
(* here in the properties' own terms, without the operators of the model.  *)

Did(op) == last.op = op

Rejected == last.res # "Ok"

Unchanged == Snapshot = last.pre

Pid == last.args.portfolio_id

StopSet == last.pre.EmergencyStop = <<TRUE>>

Exists(pid) == pid \in DOMAIN last.pre.portfolios

Before(pid) == last.pre.portfolios[pid]

Targets(pid) == DOMAIN Before(pid).target_allocations

HasQuote(a) == oracle[a] # << >>

QuoteAge(a) == now - oracle[a][1].timestamp

StaleQuote(a) == HasQuote(a) /\ QuoteAge(a) > 3600

FreshQuote(a) == HasQuote(a) /\ QuoteAge(a) <= 3600

CooldownElapsed(pid) == now - Before(pid).last_rebalance >= 3600

Position(a) == CHOOSE i \in DOMAIN AssetOrder : AssetOrder[i] = a

\* Every guard of execute_rebalance lets the call through.
GuardsPass ==
    /\ ~StopSet
    /\ Exists(Pid)
    /\ last.caller = Before(Pid).user
    /\ CooldownElapsed(Pid)
    /\ last.pre.ReflectorAddress # << >>
    /\ \A a \in Targets(Pid) : FreshQuote(a)

RECURSIVE SumOver(_, _)
SumOver(S, f) ==
    IF S = {} THEN 0
    ELSE LET x == CHOOSE y \in S : TRUE IN f[x] + SumOver(S \ {x}, f)

\* Sum over the held, quoted assets of (balance * price) / 10^14.
TotalValue(pid) ==
    LET b == Before(pid).current_balances
        quoted == {a \in DOMAIN b : HasQuote(a)}
    IN  SumOver(quoted, [a \in quoted |-> (b[a] * oracle[a][1].price) \div PRICE_SCALE])

\* ((total_value * target_percent) / 100) * 10^14 / price
Expected(pid, a) ==
    (((TotalValue(pid) * Before(pid).target_allocations[a]) \div 100) * PRICE_SCALE)
        \div oracle[a][1].price

Proposed(a) ==
    IF a \in DOMAIN last.args.actual_balances THEN last.args.actual_balances[a] ELSE 0

Distance(x, y) == IF x >= y THEN x - y ELSE y - x

\* abs(expected - actual) * 10000 / abs(expected) exceeds the tolerance
SlippageOver(pid, a) ==
    /\ Expected(pid, a) # 0
    /\ (Distance(Expected(pid, a), Proposed(a)) * 10000) \div Expected(pid, a)
           > Before(pid).slippage_tolerance

----------------------------------------------------------------------------
(* Properties *)

\* C1: whenever the emergency-stop flag is set, execute_rebalance is
\* rejected with the emergency-stop error, whatever the portfolio id, the
\* caller, the proposed balances, the clock and the quotes, and no
\* persisted state changes.
C1_EmergencyStopFirst ==
    (Did("execute_rebalance") /\ StopSet) =>
        (last.res = "EmergencyStopActive" /\ Unchanged)

\* C1 witness: the stop error was returned to a caller who is not the
\* owner, during the cooldown, with a target asset unquoted.
C1_Witness ==
    /\ Did("execute_rebalance")
    /\ last.res = "EmergencyStopActive"
    /\ Exists(Pid)
    /\ last.caller # Before(Pid).user
    /\ ~CooldownElapsed(Pid)
    /\ \E a \in Targets(Pid) : ~HasQuote(a)

\* C2 as stated: execute_rebalance on an existing portfolio at a time
\* t < last_rebalance + 3600 is rejected with the cooldown error and
\* last_rebalance is unchanged.
C2_Original ==
    (Did("execute_rebalance") /\ Exists(Pid)
         /\ now < Before(Pid).last_rebalance + 3600) =>
        (/\ last.res = "CooldownActive"
         /\ portfolios[Pid].last_rebalance = Before(Pid).last_rebalance)

\* C2 amended: execute_rebalance on an existing portfolio at a time
\* t < last_rebalance + 3600 is rejected and last_rebalance is unchanged;
\* the error is the cooldown error when the emergency stop is not set and
\* the caller is the owner.
C2_CooldownRejects ==
    (Did("execute_rebalance") /\ Exists(Pid)
         /\ now < Before(Pid).last_rebalance + 3600) =>
        (/\ Rejected
         /\ portfolios[Pid].last_rebalance = Before(Pid).last_rebalance
         /\ (~StopSet /\ last.caller = Before(Pid).user)
                => last.res = "CooldownActive")

\* C2 witness: the owner was refused one time unit before the cooldown
\* ended, with every target asset freshly quoted.
C2_Witness ==
    /\ Did("execute_rebalance")
    /\ last.res = "CooldownActive"
    /\ now = Before(Pid).last_rebalance + 3599
    /\ \A a \in Targets(Pid) : FreshQuote(a)

\* C3 as stated: execute_rebalance on a portfolio with a target asset
\* whose quote is older than 3600 is rejected with the staleness error.
C3_Original ==
    (Did("execute_rebalance") /\ Exists(Pid)
         /\ \E a \in Targets(Pid) : StaleQuote(a)) =>
        last.res = "StalePriceData"

\* C3 amended: execute_rebalance on a portfolio with a target asset whose
\* quote is older than 3600 is rejected and changes nothing, even if the
\* other target assets have fresh quotes; the error is the staleness error
\* when the emergency stop is not set, the caller is the owner, the
\* cooldown has elapsed, the contract is initialized and no target asset
\* that precedes the stale one in key order lacks a quote.
C3_StaleRejects ==
    (Did("execute_rebalance") /\ Exists(Pid)
         /\ \E a \in Targets(Pid) : StaleQuote(a)) =>
        (/\ Rejected
         /\ Unchanged
         /\ (/\ ~StopSet
             /\ last.caller = Before(Pid).user
             /\ CooldownElapsed(Pid)
             /\ last.pre.ReflectorAddress # << >>
             /\ \E a \in Targets(Pid) :
                    /\ StaleQuote(a)
                    /\ \A b \in Targets(Pid) : Position(b) < Position(a) => HasQuote(b))
                => last.res = "StalePriceData")

\* C3 witness: the staleness error with the first target asset freshly
\* quoted and the second one stale by one time unit.
C3_Witness ==
    /\ Did("execute_rebalance")
    /\ last.res = "StalePriceData"
    /\ Targets(Pid) = {"a1", "a2"}
    /\ FreshQuote("a1")
    /\ HasQuote("a2")
    /\ QuoteAge("a2") = 3601

\* C4: execute_rebalance on a portfolio with a target asset that has no
\* quote is rejected and changes nothing, even if the other target assets
\* have fresh quotes, while check_rebalance_needed on the same portfolio
\* still returns an answer.
C4_MissingRejects ==
    /\ (Did("execute_rebalance") /\ Exists(Pid)
            /\ \E a \in Targets(Pid) : ~HasQuote(a)) =>
           (Rejected /\ Unchanged)
    /\ (Did("check_rebalance_needed") /\ Exists(Pid)
            /\ last.pre.ReflectorAddress # << >>) =>
           last.res \in {"true", "false"}

\* C4 witness: the missing-quote error with the first target asset freshly
\* quoted and the second one unquoted.
C4_Witness ==
    /\ Did("execute_rebalance")
    /\ last.res = "MissingPriceData"
    /\ Targets(Pid) = {"a1", "a2"}
    /\ FreshQuote("a1")
    /\ ~HasQuote("a2")

\* C5 as stated: when all guards pass and the total value is nonzero,
\* execute_rebalance is rejected with SlippageExceeded and commits nothing
\* if some target asset with nonzero expected balance has slippage over the
\* tolerance, the actual balance being 0 for every asset the proposed map
\* does not specify, for every proposed map including the empty one.
C5_SlippageRejects ==
    (/\ Did("execute_rebalance")
     /\ GuardsPass
     /\ TotalValue(Pid) # 0
     /\ \E a \in Targets(Pid) : SlippageOver(Pid, a)) =>
        (last.res = "SlippageExceeded" /\ Unchanged)

\* C6: when all guards pass and the proposed balance of every target asset
\* equals its expected balance, execute_rebalance succeeds and the stored
\* last_rebalance becomes the current time.
C6_ExactSucceeds ==
    (/\ Did("execute_rebalance")
     /\ GuardsPass
     /\ \A a \in Targets(Pid) :
            a \in DOMAIN last.args.actual_balances /\ Proposed(a) = Expected(Pid, a)) =>
        (last.res = "Ok" /\ portfolios[Pid].last_rebalance = now)

\* C6 witness: a rebalance went through with two target assets, a nonzero
\* total value and a truncated expected balance proposed exactly.
C6_Witness ==
    /\ Did("execute_rebalance")
    /\ last.res = "Ok"
    /\ portfolios[Pid].last_rebalance = now
    /\ Before(Pid).last_rebalance < now
    /\ Targets(Pid) = {"a1", "a2"}
    /\ TotalValue(Pid) = 250
    /\ \A a \in Targets(Pid) :
           a \in DOMAIN last.args.actual_balances /\ Proposed(a) = Expected(Pid, a)
    /\ Proposed("a2") = 83

\* The percentages of a map add up to exactly 100, in the integers.
SumIs100(m) ==
    /\ \A a \in DOMAIN m : m[a] <= 100
    /\ SumOver(DOMAIN m, m) = 100

\* C7: a rejected call of initialize, create_portfolio, deposit,
\* execute_rebalance or set_emergency_stop, whatever the cause, leaves the
\* admin, the oracle address, the emergency-stop flag, the next-id counter
\* and every portfolio record as they were before the call.
C7_RejectedUnchanged ==
    (/\ last.op \in {"initialize", "create_portfolio", "deposit",
                     "execute_rebalance", "set_emergency_stop"}
     /\ Rejected) =>
        (/\ Admin = last.pre.Admin
         /\ ReflectorAddress = last.pre.ReflectorAddress
         /\ EmergencyStop = last.pre.EmergencyStop
         /\ NextPortfolioId = last.pre.NextPortfolioId
         /\ portfolios = last.pre.portfolios
         /\ Unchanged)

\* C7 witness: execute_rebalance was rejected for slippage, its last guard,
\* on a portfolio that holds balances.
C7_Witness ==
    /\ Did("execute_rebalance")
    /\ last.res = "SlippageExceeded"
    /\ TotalValue(Pid) > 0
    /\ Unchanged

\* C8: the first successful create_portfolio returns 1 and every
\* successful create_portfolio returns an id greater than every id
\* returned before it, whatever the clock.
C8_IdsIncrease ==
    /\ returned # << >> => returned[1] = 1
    /\ \A i, j \in DOMAIN returned : i < j => returned[i] < returned[j]
    /\ (Did("create_portfolio") /\ last.res = "Ok") =>
           (/\ returned # << >>
            /\ last.id = returned[Len(returned)]
            /\ last.id \notin DOMAIN last.pre.portfolios)

\* C8 witness: two creations within the same tick returned 1 and then 2.
C8_Witness ==
    /\ Did("create_portfolio")
    /\ last.res = "Ok"
    /\ last.id = 2
    /\ returned = <<1, 2>>
    /\ portfolios[1].last_rebalance = now
    /\ portfolios[2].last_rebalance = now

\* C9 as stated: validate_allocations returns true exactly for the maps
\* whose percentages add up to 100, whatever the number of entries; the
\* empty map is invalid.
C9_ValidatesSum ==
    Did("validate_allocations") =>
        (/\ last.res = "true" <=> SumIs100(last.args.allocations)
         /\ last.args.allocations = << >> => last.res = "false")

\* The causes create_portfolio has to reject its arguments.
CreateCauses ==
    {c \in {"InvalidAllocation", "InvalidThreshold", "InvalidSlippageTolerance"} :
        \/ c = "InvalidAllocation" /\ ~SumIs100(last.args.target_allocations)
        \/ c = "InvalidThreshold"
               /\ ~(last.args.rebalance_threshold \in 1..50)
        \/ c = "InvalidSlippageTolerance"
               /\ ~(last.args.slippage_tolerance \in 10..500)}

\* C10 as stated: create_portfolio authorised by the user rejects, with the
\* error of a cause that is present, any call whose target allocations do
\* not add up to 100, whose threshold is outside [1,50] or whose tolerance
\* is outside [10,500]; a rejected creation changes no persisted state, so
\* the ids returned are 1, 2, 3, ... whatever creations were rejected.
C10_CreateRejectsInvalid ==
    /\ (Did("create_portfolio") /\ last.caller = last.args.user) =>
           (/\ CreateCauses # {} => last.res \in CreateCauses
            /\ Rejected => Unchanged)
    /\ \A i \in DOMAIN returned : returned[i] = i

\* The balance a portfolio record holds of an asset, 0 without an entry.
Held(portfolio, a) ==
    IF a \in DOMAIN portfolio.current_balances THEN portfolio.current_balances[a] ELSE 0

\* C11: deposit with an amount <= 0 is rejected, for every portfolio id,
\* asset and emergency-stop setting, and changes no persisted state.
C11_NonPositiveDepositRejected ==
    (Did("deposit") /\ last.args.amount <= 0) => (Rejected /\ Unchanged)

\* C11 witness: the owner's deposit of 0 into an existing portfolio was
\* refused while the emergency stop was not set.
C11_Witness ==
    /\ Did("deposit")
    /\ last.args.amount = 0
    /\ Rejected
    /\ Exists(Pid)
    /\ last.caller = Before(Pid).user
    /\ ~StopSet

\* C12: a successful deposit has amount > 0 and sets the portfolio's
\* balance of the asset to its previous balance (0 without an entry) plus
\* the amount, whether or not the asset is a target; every other balance
\* of the portfolio, its other fields, every other portfolio and the
\* global configuration are unchanged.
C12_DepositAdds ==
    (Did("deposit") /\ last.res = "Ok") =>
        (/\ last.args.amount > 0
         /\ Exists(Pid)
         /\ DOMAIN portfolios = DOMAIN last.pre.portfolios
         /\ Held(portfolios[Pid], last.args.asset)
                = Held(Before(Pid), last.args.asset) + last.args.amount
         /\ DOMAIN portfolios[Pid].current_balances
                = DOMAIN Before(Pid).current_balances \cup {last.args.asset}
         /\ \A b \in DOMAIN Before(Pid).current_balances \ {last.args.asset} :
                portfolios[Pid].current_balances[b] = Before(Pid).current_balances[b]
         /\ [portfolios[Pid] EXCEPT !.current_balances = << >>]
                = [Before(Pid) EXCEPT !.current_balances = << >>]
         /\ \A q \in DOMAIN portfolios \ {Pid} : portfolios[q] = last.pre.portfolios[q]
         /\ Initialized = last.pre.Initialized
         /\ Admin = last.pre.Admin
         /\ ReflectorAddress = last.pre.ReflectorAddress
         /\ EmergencyStop = last.pre.EmergencyStop
         /\ NextPortfolioId = last.pre.NextPortfolioId)

\* C12 witness: a second deposit of the non-target asset a3 into a
\* portfolio that holds a target asset too, with another portfolio stored.
C12_Witness ==
    /\ Did("deposit")
    /\ last.res = "Ok"
    /\ last.args.asset = "a3"
    /\ "a3" \notin Targets(Pid)
    /\ Held(Before(Pid), "a3") = 100
    /\ Held(portfolios[Pid], "a3") = 200
    /\ Held(portfolios[Pid], "a1") = 100
    /\ \E q \in DOMAIN portfolios : q # Pid /\ Held(portfolios[q], "a2") = 100

\* C13 as stated: while the emergency stop is set every deposit is rejected
\* with the emergency-stop error and no balance changes; with the flag
\* cleared the owner's deposit of a positive amount is accepted.
C13_Original ==
    /\ (Did("deposit") /\ StopSet) =>
           (last.res = "EmergencyStopActive" /\ portfolios = last.pre.portfolios)
    /\ (/\ Did("deposit")
        /\ ~StopSet
        /\ last.args.amount > 0
        /\ Exists(Pid)
        /\ last.caller = Before(Pid).user) => last.res = "Ok"

\* C13 amended: while the emergency stop is set every deposit is rejected
\* and no balance changes, with the emergency-stop error when the amount
\* is positive; with the flag cleared the owner's deposit of a positive
\* amount is accepted.
C13_StopBlocksDeposits ==
    /\ (Did("deposit") /\ StopSet) =>
           (/\ Rejected
            /\ portfolios = last.pre.portfolios
            /\ last.args.amount > 0 => last.res = "EmergencyStopActive")
    /\ (/\ Did("deposit")
        /\ ~StopSet
        /\ last.args.amount > 0
        /\ Exists(Pid)
        /\ last.caller = Before(Pid).user) => last.res = "Ok"

\* C13 witness: a deposit was accepted after the emergency stop had been
\* set and cleared.
C13_Witness ==
    /\ Did("deposit")
    /\ last.res = "Ok"
    /\ history.stopped
    /\ last.pre.EmergencyStop = <<FALSE>>

\* The value of a held asset at its quote, (balance * price) / 10^14, and the
\* total over the held, quoted assets of a portfolio record.
ValueOf(portfolio, a) == (Held(portfolio, a) * oracle[a][1].price) \div PRICE_SCALE

TotalOf(portfolio) ==
    LET quoted == {a \in DOMAIN portfolio.current_balances : HasQuote(a)}
    IN  SumOver(quoted, [a \in quoted |-> ValueOf(portfolio, a)])

\* (asset_value * 100) / total_value, truncated
PercentOf(portfolio, a) == (ValueOf(portfolio, a) * 100) \div TotalOf(portfolio)

\* abs(current_percent - target_percent)
DriftOf(portfolio, a) ==
    Distance(PercentOf(portfolio, a), portfolio.target_allocations[a])

\* check_rebalance_needed found the portfolio and the oracle address.
Checked ==
    /\ Did("check_rebalance_needed")
    /\ Exists(Pid)
    /\ last.pre.ReflectorAddress # << >>

\* C14: check_rebalance_needed returns false whenever the total value is 0,
\* and whenever the drift of every quoted target asset is at most the
\* threshold.
C14_NoDriftFalse ==
    Checked =>
        (/\ TotalOf(Before(Pid)) = 0 => last.res = "false"
         /\ (/\ TotalOf(Before(Pid)) # 0
             /\ \A a \in Targets(Pid) :
                    HasQuote(a) => DriftOf(Before(Pid), a) <= Before(Pid).rebalance_threshold)
                => last.res = "false")

\* C14 witness: false for targets 50/50, threshold 3, values 110/100:
\* shares 52 and 47 by truncation, drifts 2 and 3.
C14_Witness ==
    /\ Checked
    /\ last.res = "false"
    /\ Before(Pid).rebalance_threshold = 3
    /\ HasQuote("a1") /\ HasQuote("a2")
    /\ TotalOf(Before(Pid)) = 210
    /\ PercentOf(Before(Pid), "a1") = 52
    /\ PercentOf(Before(Pid), "a2") = 47

\* C15: check_rebalance_needed returns true whenever the total value is
\* nonzero and some quoted target asset has a drift greater than the
\* threshold, wherever it comes in the order of the target assets.
C15_DriftTrue ==
    (/\ Checked
     /\ TotalOf(Before(Pid)) # 0
     /\ \E a \in Targets(Pid) :
            HasQuote(a) /\ DriftOf(Before(Pid), a) > Before(Pid).rebalance_threshold)
        => last.res = "true"

\* C15 witness: true with the first target asset within the threshold
\* (share 52, drift 2) and the second one beyond it (share 23, drift 27).
C15_Witness ==
    /\ Checked
    /\ last.res = "true"
    /\ HasQuote("a1") /\ HasQuote("a2")
    /\ TotalOf(Before(Pid)) = 420
    /\ PercentOf(Before(Pid), "a1") = 52
    /\ DriftOf(Before(Pid), "a1") <= Before(Pid).rebalance_threshold
    /\ PercentOf(Before(Pid), "a2") = 23

\* C16 as stated: two stored portfolios with the same targets, threshold
\* and balances of every target asset get the same answer from
\* check_rebalance_needed under the same quotes, and a deposit of a
\* non-target asset does not change the answer.
C16_NonTargetIgnored ==
    /\ \A p, q \in DOMAIN portfolios :
           (/\ portfolios[p].target_allocations = portfolios[q].target_allocations
            /\ portfolios[p].rebalance_threshold = portfolios[q].rebalance_threshold
            /\ \A a \in DOMAIN portfolios[p].target_allocations :
                   Held(portfolios[p], a) = Held(portfolios[q], a))
               => RebalanceNeeded(portfolios[p], oracle) = RebalanceNeeded(portfolios[q], oracle)
    /\ (/\ Did("deposit")
        /\ last.res = "Ok"
        /\ last.args.asset \notin Targets(Pid))
           => RebalanceNeeded(portfolios[Pid], oracle) = RebalanceNeeded(Before(Pid), oracle)

\* C17: initialize succeeds only while the contract is not initialized and
\* then stores its arguments; on an initialized contract it is rejected
\* with AlreadyInitialized, and no call of any function changes the admin
\* or the oracle address of an initialized contract.
C17_InitializeOnce ==
    /\ Did("initialize") =>
           IF last.pre.Initialized
           THEN last.res = "AlreadyInitialized" /\ Unchanged
           ELSE /\ last.res = "Ok"
                /\ Initialized
                /\ Admin = <<last.args.admin>>
                /\ ReflectorAddress = <<last.args.reflector_address>>
    /\ (~Idle /\ last.pre.Initialized) =>
           (/\ Initialized
            /\ Admin = last.pre.Admin
            /\ ReflectorAddress = last.pre.ReflectorAddress)
    /\ Initialized => (Admin # << >> /\ ReflectorAddress # << >>)

\* C17 witness: a second initialize with another admin and another oracle
\* address was rejected.
C17_Witness ==
    /\ Did("initialize")
    /\ last.res = "AlreadyInitialized"
    /\ Admin # <<last.args.admin>>
    /\ ReflectorAddress # <<last.args.reflector_address>>

\* Some target asset of the portfolio has no quote or a stale one.
QuoteFails(pid) == \E a \in Targets(pid) : ~FreshQuote(a)

\* C18: for the owner's execute_rebalance on an existing portfolio the
\* error is that of the earliest failing guard in the order emergency stop,
\* cooldown, quotes, slippage.
C18_GuardOrder ==
    Did("execute_rebalance") =>
        (/\ StopSet => last.res = "EmergencyStopActive"
         /\ (~StopSet /\ Exists(Pid) /\ last.caller = Before(Pid).user) =>
                (/\ ~CooldownElapsed(Pid) => last.res = "CooldownActive"
                 /\ (/\ CooldownElapsed(Pid)
                     /\ last.pre.ReflectorAddress # << >>
                     /\ QuoteFails(Pid))
                        => last.res \in {"StalePriceData", "MissingPriceData"})
         /\ last.res = "CooldownActive" => ~StopSet
         /\ last.res \in {"StalePriceData", "MissingPriceData"} =>
                (~StopSet /\ CooldownElapsed(Pid))
         /\ last.res = "SlippageExceeded" => GuardsPass)

\* C18 witness: the cooldown error for a call made during the cooldown
\* with a stale quote and an unquoted target asset.
C18_Witness ==
    /\ Did("execute_rebalance")
    /\ last.res = "CooldownActive"
    /\ Targets(Pid) = {"a1", "a2"}
    /\ StaleQuote("a1")
    /\ ~HasQuote("a2")
    /\ last.args.actual_balances # << >>

\* C19: execute_rebalance by the owner succeeds whenever the emergency
\* stop is not set, now - last_rebalance >= 3600, the initialized contract
\* has a quote of age <= 3600 for every target asset and no target asset
\* is beyond the slippage tolerance, whatever was refused before.
C19_Recoverable ==
    (/\ Did("execute_rebalance")
     /\ GuardsPass
     /\ \A a \in Targets(Pid) : ~SlippageOver(Pid, a)) => last.res = "Ok"

\* C19 witness: success exactly 3600 after the creation with quotes of age
\* exactly 3600 and a proposal off by 100 bps, on a portfolio that had a
\* rebalance refused, after the emergency stop had been set and cleared.
C19_Witness ==
    /\ Did("execute_rebalance")
    /\ last.res = "Ok"
    /\ now - Before(Pid).last_rebalance = 3600
    /\ \A a \in Targets(Pid) : HasQuote(a) /\ QuoteAge(a) = 3600
    /\ TotalValue(Pid) > 0
    /\ \E a \in Targets(Pid) : Expected(Pid, a) # 0 /\ Proposed(a) # Expected(Pid, a)
    /\ Pid \in history.refused
    /\ history.stopped

\* C20: the times the observer has recorded for a portfolio, its creation
\* and then its successful rebalances, are at least 3600 apart; the
\* stored last_rebalance is the latest of them and no call lowers it.
C20_CooldownSpacing ==
    /\ DOMAIN history.times = DOMAIN portfolios
    /\ \A pid \in DOMAIN history.times :
           LET t == history.times[pid]
           IN  /\ \A i \in 2..Len(t) : t[i] - t[i - 1] >= 3600
               /\ portfolios[pid].last_rebalance = t[Len(t)]
               /\ t[Len(t)] <= now
    /\ ~Idle => \A pid \in DOMAIN last.pre.portfolios :
           portfolios[pid].last_rebalance >= last.pre.portfolios[pid].last_rebalance

\* C20 witness: a portfolio created at 0 and rebalanced at 3600 and 7200.
C20_Witness ==
    /\ Did("execute_rebalance")
    /\ last.res = "Ok"
    /\ history.times[Pid] = <<0, 3600, 7200>>

\* n / d rounded toward zero, d > 0.
TowardZero(n, d) == IF n >= 0 THEN n \div d ELSE -((-n) \div d)

\* C25: calculate_portfolio_value returns the sum, over the assets of the
\* balance map that have a quote, of (balance * price) / 10^14 with each
\* term truncated toward zero; unquoted assets contribute nothing and no
\* persisted state changes.
C25_ValueIsSumOfTerms ==
    Did("calculate_portfolio_value") =>
        LET b == last.args.balances
            quoted == {a \in DOMAIN b : HasQuote(a)}
        IN  /\ last.res = SumOver(quoted,
                    [a \in quoted |-> TowardZero(b[a] * oracle[a][1].price, PRICE_SCALE)])
            /\ Unchanged

\* C25 witness: three entries, one unquoted, one with a negative product
\* truncated from -16.5 to -16, one truncated from 65.67 to 65.
C25_Witness ==
    /\ Did("calculate_portfolio_value")
    /\ last.args.balances = [a \in Assets |-> IF a = "a2" THEN -50 ELSE 199]
    /\ ~HasQuote("a1")
    /\ HasQuote("a2") /\ oracle["a2"][1].price = 33
    /\ HasQuote("a3") /\ oracle["a3"][1].price = 33
    /\ last.res = 49

\* The percentages of a map add up to more than 2^32 - 1, in the integers:
\* the sum is taken in 16-bit halves.
SumExceedsU32(m) ==
    LET hi == SumOver(DOMAIN m, [a \in DOMAIN m |-> m[a] \div 65536])
        lo == SumOver(DOMAIN m, [a \in DOMAIN m |-> m[a] % 65536])
    IN  hi + (lo \div 65536) >= 65536

\* C24 as stated: for a map whose percentages add up to more than the u32
\* accumulator holds, validate_allocations fails or returns false, and
\* never returns true.
C24_NoSilentOverflow ==
    (Did("validate_allocations") /\ SumExceedsU32(last.args.allocations)) =>
        last.res \in {"panic", "false"}

RECURSIVE SumSeq(_)
SumSeq(q) == IF q = << >> THEN 0 ELSE q[1] + SumSeq(Tail(q))

\* C21: the balance of each asset in each portfolio is the sum of the
\* amounts of the successful deposits of that asset into that portfolio
\* the observer has recorded; every balance entry is positive and no call
\* lowers a balance.
C21_BalanceIsSumOfDeposits ==
    /\ DOMAIN history.deposits = DOMAIN portfolios
    /\ \A pid \in DOMAIN portfolios :
           /\ \A a \in Assets :
                  Held(portfolios[pid], a) = SumSeq(history.deposits[pid][a])
           /\ \A a \in DOMAIN portfolios[pid].current_balances :
                  portfolios[pid].current_balances[a] > 0
    /\ ~Idle => \A pid \in DOMAIN last.pre.portfolios : \A a \in Assets :
           Held(portfolios[pid], a) >= Held(last.pre.portfolios[pid], a)

\* C21 witness: two deposits of 50 gave a balance of 100, which a
\* successful rebalance with other proposed balances has left in place.
C21_Witness ==
    /\ Did("execute_rebalance")
    /\ last.res = "Ok"
    /\ history.deposits[Pid]["a1"] = <<50, 50>>
    /\ Held(portfolios[Pid], "a1") = 100
    /\ Proposed("a1") # 100

\* C22 as stated: every stored portfolio has target percentages adding up
\* to exactly 100, a threshold in [1,50] and a tolerance in [10,500]; no
\* call changes the owner, targets, threshold or tolerance of a stored
\* portfolio or removes it.
C22_PortfoliosWellFormed ==
    /\ \A pid \in DOMAIN portfolios :
           /\ SumIs100(portfolios[pid].target_allocations)
           /\ portfolios[pid].rebalance_threshold \in 1..50
           /\ portfolios[pid].slippage_tolerance \in 10..500
    /\ ~Idle => \A pid \in DOMAIN last.pre.portfolios :
           /\ pid \in DOMAIN portfolios
           /\ portfolios[pid].user = last.pre.portfolios[pid].user
           /\ portfolios[pid].target_allocations
                  = last.pre.portfolios[pid].target_allocations
           /\ portfolios[pid].rebalance_threshold
                  = last.pre.portfolios[pid].rebalance_threshold
           /\ portfolios[pid].slippage_tolerance
                  = last.pre.portfolios[pid].slippage_tolerance

\* C23: a successful execute_rebalance sets last_rebalance of the
\* addressed portfolio to the current time and changes nothing else: not
\* its balances, whatever was proposed, nor its other fields, the other
\* portfolios, the id counter or the global configuration.
C23_OnlyLastRebalance ==
    (Did("execute_rebalance") /\ last.res = "Ok") =>
        (/\ Exists(Pid)
         /\ DOMAIN portfolios = DOMAIN last.pre.portfolios
         /\ portfolios[Pid].last_rebalance = now
         /\ portfolios[Pid].current_balances = Before(Pid).current_balances
         /\ [portfolios[Pid] EXCEPT !.last_rebalance = 0]
                = [Before(Pid) EXCEPT !.last_rebalance = 0]
         /\ \A q \in DOMAIN portfolios \ {Pid} : portfolios[q] = last.pre.portfolios[q]
         /\ NextPortfolioId = last.pre.NextPortfolioId
         /\ Initialized = last.pre.Initialized
         /\ Admin = last.pre.Admin
         /\ ReflectorAddress = last.pre.ReflectorAddress
         /\ EmergencyStop = last.pre.EmergencyStop)

\* C23 witness: a rebalance went through whose proposed balances differ
\* from the balances held, which are as before, with a second portfolio
\* stored.
C23_Witness ==
    /\ Did("execute_rebalance")
    /\ last.res = "Ok"
    /\ last.args.actual_balances # << >>
    /\ \E a \in Targets(Pid) : Proposed(a) # Held(Before(Pid), a)
    /\ Held(portfolios[Pid], "a2") > 0
    /\ portfolios[Pid].last_rebalance > Before(Pid).last_rebalance
    /\ \E q \in DOMAIN portfolios : q # Pid

\* C26: when all guards pass and the total value is 0, execute_rebalance
\* succeeds for every proposed map and sets last_rebalance to the current
\* time.
C26_ZeroValueSucceeds ==
    (Did("execute_rebalance") /\ GuardsPass /\ TotalValue(Pid) = 0) =>
        (last.res = "Ok" /\ portfolios[Pid].last_rebalance = now)

\* C26 witness: a portfolio without deposits was rebalanced with proposed
\* balances of 100 for both target assets.
C26_Witness ==
    /\ Did("execute_rebalance")
    /\ last.res = "Ok"
    /\ Before(Pid).current_balances = << >>
    /\ Targets(Pid) = {"a1", "a2"}
    /\ Proposed("a1") = 100 /\ Proposed("a2") = 100
    /\ portfolios[Pid].last_rebalance = now

====
